---- MODULE Spec2Model ----
(***************************************************************************)
(* Version selection of the BuildStream documentation site scripts:       *)
(*   generate_pages.py  select_releases / group_releases_by_minor_versions *)
(*                      / download_and_extract_docs / Semver               *)
(*   migrate-assets.py  get_semver_tags / download_docs / get_doc_job      *)
(*   grab-assets.py     get_latest                                         *)
(* A string is a tuple of one-character strings; a dict is a sequence of   *)
(* <<key, value>> pairs in insertion order.                                *)
(***************************************************************************)
EXTENDS Integers, Sequences, FiniteSets, TLC

VARIABLES
    prog,                \* which script runs
    pc,                  \* position of the script
    err,                 \* the exception that ended the run, or "none"
    repo,                \* what repo.get_releases() / project.get_tags() lists, in order
    assets,              \* release id -> has an asset named docs.tgz
    workdir,             \* the files of WORK_DIR the run has found or written
    outdir,              \* the version directories extracted into OUTPUT_DIR
    releases,            \* the dict indexed by Semver (select_releases / get_semver_tags)
    grouped_releases,    \* the dict returned by group_releases_by_minor_versions
    stable_releases,     \* first list returned by select_releases
    dev_snapshots,       \* second list returned by select_releases
    idx,                 \* loop position of main / download_docs
    downloaded_versions, \* list built by download_docs
    lastProbe,           \* the last call of download_commit_docs: tag, jobs seen, answer
    latest,              \* what get_latest returns: release and snapshot title
    string,              \* argument of Semver.from_string (parser specification)
    parsed               \* its result (parser specification)

vars == <<prog, pc, err, repo, assets, workdir, outdir, releases, grouped_releases,
          stable_releases, dev_snapshots, idx, downloaded_versions, lastProbe,
          latest, string, parsed>>

(***************************************************************************)
(* Bounds                                                                  *)
(***************************************************************************)
MaxReleases == 3    \* releases listed to generate_pages.py and grab-assets.py
MaxTags == 2        \* tags listed to migrate-assets.py
MaxJobs == 2        \* "docs" statuses of one commit
MaxLen == 5         \* length of the strings given to the parser

(***************************************************************************)
(* Semver                                                                  *)
(***************************************************************************)
Digits == {"0", "1", "2", "3"}

DigitVal(c) == CASE c = "0" -> 0 [] c = "1" -> 1 [] c = "2" -> 2 [] c = "3" -> 3

\* \d+ : a non-empty run of digits
IsDigits(s) == Len(s) > 0 /\ \A i \in 1..Len(s) : s[i] \in Digits

\* int(num)
RECURSIVE ToInt(_)
ToInt(s) == IF Len(s) = 0 THEN 0
            ELSE ToInt(SubSeq(s, 1, Len(s) - 1)) * 10 + DigitVal(s[Len(s)])

None == <<>>

\* The ways (\d+).(\d+).(\d+) covers the whole of s: the first group is s[1..i],
\* the second s[i+2..j], the third s[j+2..Len(s)]; '.' is any character but a newline.
MatchSplits(s) ==
    {ij \in (1..Len(s)) \X (1..Len(s)) :
        /\ ij[1] + 2 <= ij[2]
        /\ ij[2] + 2 <= Len(s)
        /\ IsDigits(SubSeq(s, 1, ij[1]))
        /\ s[ij[1] + 1] # "\n"
        /\ IsDigits(SubSeq(s, ij[1] + 2, ij[2]))
        /\ s[ij[2] + 1] # "\n"
        /\ IsDigits(SubSeq(s, ij[2] + 2, Len(s)))}

\* A '.' that only matches a literal dot.
match_literal_dots(s) ==
    LET ok == {ij \in MatchSplits(s) : s[ij[1] + 1] = "." /\ s[ij[2] + 1] = "."}
    IN  IF ok = {} THEN None
        ELSE LET ij == CHOOSE x \in ok : TRUE
             IN  <<SubSeq(s, 1, ij[1]), SubSeq(s, ij[1] + 2, ij[2]),
                   SubSeq(s, ij[2] + 2, Len(s))>>

\* re.fullmatch(r"(\d+).(\d+).(\d+)", string): the groups, greedy from the left.
match_semver_string(s) ==
    LET all == MatchSplits(s)
    IN  IF all = {} THEN None
        ELSE LET i  == CHOOSE x \in {ij[1] : ij \in all} :
                            \A y \in {ij[1] : ij \in all} : y <= x
                 js == {ij[2] : ij \in {z \in all : z[1] = i}}
                 j  == CHOOSE x \in js : \A y \in js : y <= x
             IN  <<SubSeq(s, 1, i), SubSeq(s, i + 2, j), SubSeq(s, j + 2, Len(s))>>

Semver(a, b, c) == [major |-> a, minor |-> b, patch |-> c]

VersionError == [error |-> "VersionError"]

\* Semver.from_string
from_string(s) ==
    LET match == match_semver_string(s)
    IN  IF match # None
        THEN Semver(ToInt(match[1]), ToInt(match[2]), ToInt(match[3]))
        ELSE VersionError

\* Semver.__lt__
SemverLt(self, other) ==
    IF self.major < other.major THEN TRUE
    ELSE IF self.major = other.major
         THEN IF self.minor < other.minor THEN TRUE
              ELSE IF self.minor = other.minor
                   THEN self.patch < other.patch
                   ELSE FALSE
         ELSE FALSE

(***************************************************************************)
(* Python containers                                                       *)
(***************************************************************************)
\* d[k] = v on an insertion-ordered dict: an existing key keeps its place.
DictSet(d, k, v) ==
    IF \E i \in 1..Len(d) : d[i][1] = k
    THEN [i \in 1..Len(d) |-> IF d[i][1] = k THEN <<k, v>> ELSE d[i]]
    ELSE Append(d, <<k, v>>)

DictKeys(d) == {d[i][1] : i \in 1..Len(d)}

\* (Semver, GitRelease) < (Semver, GitRelease): tuples compare at their first
\* unequal item. The items of a dict never share the Semver, so the GitRelease
\* objects are never compared.
ItemLt(a, b) == IF a[1] # b[1] THEN SemverLt(a[1], b[1]) ELSE FALSE

RECURSIVE Insert(_, _)
Insert(x, s) ==
    IF Len(s) = 0 THEN <<x>>
    ELSE IF ItemLt(x, s[Len(s)])
         THEN Append(Insert(x, SubSeq(s, 1, Len(s) - 1)), s[Len(s)])
         ELSE Append(s, x)

IdentityOrder(s) == s

\* sorted(items): stable, by ItemLt alone
RECURSIVE Sorted(_)
Sorted(s) ==
    IF Len(s) = 0 THEN <<>>
    ELSE Insert(s[Len(s)], Sorted(SubSeq(s, 1, Len(s) - 1)))

GroupKey(item) == <<item[1].major, item[1].minor>>

\* itertools.groupby(items, key): runs of consecutive items with the same key
RECURSIVE GroupBy(_)
GroupBy(s) ==
    IF Len(s) = 0 THEN <<>>
    ELSE LET front == GroupBy(SubSeq(s, 1, Len(s) - 1))
             item  == s[Len(s)]
         IN  IF Len(front) > 0 /\ front[Len(front)][1] = GroupKey(item)
             THEN [front EXCEPT ![Len(front)] = <<@[1], Append(@[2], item)>>]
             ELSE Append(front, <<GroupKey(item), <<item>>>>)

(***************************************************************************)
(* generate_pages.py                                                       *)
(***************************************************************************)
\* The loop of select_releases over repo.get_releases(): releases[version] = release
RECURSIVE ReleaseTable(_)
ReleaseTable(rels) ==
    IF Len(rels) = 0 THEN <<>>
    ELSE LET table   == ReleaseTable(SubSeq(rels, 1, Len(rels) - 1))
             release == rels[Len(rels)]
             version == from_string(release.tag_name)
         IN  IF version = VersionError THEN table
             ELSE DictSet(table, version, release)

RECURSIVE GroupedDict(_)
GroupedDict(groups) ==
    IF Len(groups) = 0 THEN <<>>
    ELSE LET group == groups[Len(groups)]
         IN  DictSet(GroupedDict(SubSeq(groups, 1, Len(groups) - 1)),
                     group[1], Sorted(group[2]))

group_releases_by_minor_versions(table) == GroupedDict(GroupBy(Sorted(table)))

OldestOf(list) == list[1]

\* releases[-1]
LatestOf(list) == list[Len(list)]

AllOf(list) == list

FirstDevSnapshot(list) == <<list[1]>>

\* dev_snapshots[-1], returned as [ dev_snapshot ]
SelectDevSnapshot(list) == <<list[Len(list)]>>

IsStableGroup(group) == group[2] % 2 = 0

\* stable_releases after the loop over grouped_releases.items()
RECURSIVE StableReleases(_)
StableReleases(grouped) ==
    IF Len(grouped) = 0 THEN <<>>
    ELSE LET rest == StableReleases(SubSeq(grouped, 1, Len(grouped) - 1))
             g    == grouped[Len(grouped)]
         IN  IF IsStableGroup(g[1]) THEN Append(rest, LatestOf(g[2])) ELSE rest

\* dev_snapshots after the loop over grouped_releases.items()
RECURSIVE DevSnapshots(_)
DevSnapshots(grouped) ==
    IF Len(grouped) = 0 THEN <<>>
    ELSE LET rest == DevSnapshots(SubSeq(grouped, 1, Len(grouped) - 1))
             g    == grouped[Len(grouped)]
         IN  IF IsStableGroup(g[1]) THEN rest ELSE Append(rest, LatestOf(g[2]))

\* WORK_DIR / "docs-{version}.tgz"
TgzFile(version) == [kind |-> "tgz", version |-> version]

AlwaysOpens(path, files) == TRUE

\* tarfile.open(download_path) finds the file
TarOpens(path, files) == path \in files

(***************************************************************************)
(* migrate-assets.py                                                       *)
(***************************************************************************)
\* {Semver.from_string(tag.name): tag for tag in tags if match_semver_string(tag.name)}
RECURSIVE get_semver_tags(_)
get_semver_tags(tags) ==
    IF Len(tags) = 0 THEN <<>>
    ELSE LET table == get_semver_tags(SubSeq(tags, 1, Len(tags) - 1))
             tag   == tags[Len(tags)]
         IN  IF match_semver_string(tag.tag_name) = None THEN table
             ELSE DictSet(table, from_string(tag.tag_name), tag)

\* WORK_DIR / "{version}.zip"
ZipFile(version) == [kind |-> "zip", version |-> version]

NoJob == [id |-> 0, status |-> "none"]

\* A job that did not fail counts.
get_doc_job_not_failed(jobs) ==
    IF \E i \in 1..Len(jobs) : jobs[i] # "failed"
    THEN LET i == CHOOSE x \in 1..Len(jobs) :
                      jobs[x] # "failed" /\ \A y \in 1..(x - 1) : jobs[y] = "failed"
         IN  [id |-> i, status |-> jobs[i]]
    ELSE NoJob

\* jobs: the statuses of commit.statuses.list(name="docs"), in order
get_doc_job(jobs) ==
    IF \E i \in 1..Len(jobs) : jobs[i] = "success"
    THEN LET i == CHOOSE x \in 1..Len(jobs) :
                      jobs[x] = "success" /\ \A y \in 1..(x - 1) : jobs[y] # "success"
         IN  [id |-> i, status |-> jobs[i]]
    ELSE NoJob

\* The value download_commit_docs returns
download_commit_docs(jobs) == get_doc_job(jobs) # NoJob

(***************************************************************************)
(* grab-assets.py                                                          *)
(***************************************************************************)
InvalidVersion == [error |-> "InvalidVersion"]

\* packaging.version.parse(title), for the titles Semver.from_string accepts:
\* a dotted triple is the release (a, b, c); a title with another separator
\* character is no version of packaging.
VersionParse(title) ==
    LET match == match_literal_dots(title)
    IN  IF match # None
        THEN Semver(ToInt(match[1]), ToInt(match[2]), ToInt(match[3]))
        ELSE InvalidVersion

\* version.parse(a) > version.parse(b)
VersionGt(a, b) == SemverLt(VersionParse(b), VersionParse(a))

ZeroTitle == <<"0", ".", "0", ".", "0">>

\* The loop of get_latest; acc is [release, snapshot, err].
RECURSIVE get_latest(_)
get_latest(rels) ==
    IF Len(rels) = 0
    THEN [release |-> ZeroTitle, snapshot |-> ZeroTitle, err |-> "none"]
    ELSE LET acc   == get_latest(SubSeq(rels, 1, Len(rels) - 1))
             title == rels[Len(rels)].tag_name
             tuple_version == from_string(title)
         IN  IF acc.err # "none" THEN acc
             ELSE IF tuple_version = VersionError THEN [acc EXCEPT !.err = "ValueError"]
             ELSE IF VersionParse(title) = InvalidVersion
                  THEN [acc EXCEPT !.err = "InvalidVersion"]
             ELSE IF tuple_version.minor % 2 = 0
                  THEN IF VersionGt(title, acc.release)
                       THEN [acc EXCEPT !.release = title] ELSE acc
                  ELSE IF VersionGt(title, acc.snapshot)
                       THEN [acc EXCEPT !.snapshot = title] ELSE acc

(***************************************************************************)
(* The repository the scripts query                                        *)
(***************************************************************************)
TagNames == <<
    <<"1", ".", "2", ".", "0">>,
    <<"0", "1", ".", "2", ".", "0">>,
    <<"1", ".", "2", ".", "1">>,
    <<"1", ".", "1", ".", "0">>,
    <<"1", ".", "3", ".", "0">>,
    <<"2", ".", "0", ".", "0">>,
    <<"v", "1">>,
    <<"1", "x", "3", "x", "1">> >>

\* A release (or tag) of the repository: its name and its identity.
Release(i) == [tag_name |-> TagNames[i], id |-> i]

\* The listings of up to max distinct releases, in any order.
Listings(max) ==
    {l \in UNION {[1..n -> {Release(i) : i \in 1..Len(TagNames)}] : n \in 0..max} :
        \A i, j \in 1..Len(l) : i # j => l[i] # l[j]}

Ids(l) == {l[i].id : i \in 1..Len(l)}

Programs == {"generate_pages", "migrate_assets", "grab_assets"}

Statuses == {"success", "failed", "pending"}

JobLists == UNION {[1..n -> Statuses] : n \in 0..MaxJobs}

NoProbe == [id |-> 0, jobs |-> <<>>, answer |-> FALSE]

NoLatest == [release |-> <<>>, snapshot |-> <<>>]

Init ==
    /\ prog \in Programs
    /\ pc = "start"
    /\ err = "none"
    /\ repo \in IF prog = "migrate_assets" THEN Listings(MaxTags) ELSE Listings(MaxReleases)
    /\ assets \in IF prog = "generate_pages" THEN SUBSET Ids(repo) ELSE {{}}
    /\ workdir = {}
    /\ outdir = {}
    /\ releases = <<>>
    /\ grouped_releases = <<>>
    /\ stable_releases = <<>>
    /\ dev_snapshots = <<>>
    /\ idx = 0
    /\ downloaded_versions = <<>>
    /\ lastProbe = NoProbe
    /\ latest = NoLatest
    /\ string = <<>>
    /\ parsed = VersionError

\* select_releases, lines 64-79
BuildTable ==
    /\ prog = "generate_pages" /\ pc = "start"
    /\ releases' = ReleaseTable(repo)
    /\ pc' = "table"
    /\ UNCHANGED <<prog, err, repo, assets, workdir, outdir, grouped_releases,
                   stable_releases, dev_snapshots, idx, downloaded_versions,
                   lastProbe, latest, string, parsed>>

\* select_releases, line 83
Group ==
    /\ prog = "generate_pages" /\ pc = "table"
    /\ grouped_releases' = group_releases_by_minor_versions(releases)
    /\ pc' = "grouped"
    /\ UNCHANGED <<prog, err, repo, assets, workdir, outdir, releases,
                   stable_releases, dev_snapshots, idx, downloaded_versions,
                   lastProbe, latest, string, parsed>>

\* select_releases, lines 95-125: dev_snapshots[-1] of an empty list is an IndexError
Select ==
    /\ prog = "generate_pages" /\ pc = "grouped"
    /\ IF DevSnapshots(grouped_releases) = <<>>
       THEN /\ pc' = "failed"
            /\ err' = "IndexError"
            /\ UNCHANGED <<stable_releases, dev_snapshots, idx>>
       ELSE /\ stable_releases' = StableReleases(grouped_releases)
            /\ dev_snapshots' = SelectDevSnapshot(DevSnapshots(grouped_releases))
            /\ idx' = 1
            /\ pc' = "selected"
            /\ err' = err
    /\ UNCHANGED <<prog, repo, assets, workdir, outdir, releases, grouped_releases,
                   downloaded_versions, lastProbe, latest, string, parsed>>

\* main, lines 38-39: one download_and_extract_docs(version, release).
\* WORK_DIR outlives a run: left tells whether an earlier run left the archive there.
DownloadAndExtract ==
    /\ prog = "generate_pages" /\ pc = "selected"
    /\ idx <= Len(stable_releases \o dev_snapshots)
    /\ \E left \in BOOLEAN :
       LET item == (stable_releases \o dev_snapshots)[idx]
           download_path == TgzFile(item[1])
           files == IF item[2].id \in assets \/ left THEN workdir \cup {download_path}
                    ELSE workdir
       IN  /\ workdir' = files
           /\ IF TarOpens(download_path, files)
              THEN /\ outdir' = outdir \cup {item[1]}
                   /\ idx' = idx + 1
                   /\ UNCHANGED <<pc, err>>
              ELSE /\ pc' = "failed"
                   /\ err' = "FileNotFoundError"
                   /\ UNCHANGED <<outdir, idx>>
    /\ UNCHANGED <<prog, repo, assets, releases, grouped_releases, stable_releases,
                   dev_snapshots, downloaded_versions, lastProbe, latest, string, parsed>>

\* main, lines 43-51
WriteIndex ==
    /\ prog = "generate_pages" /\ pc = "selected"
    /\ idx > Len(stable_releases \o dev_snapshots)
    /\ pc' = "done"
    /\ UNCHANGED <<prog, err, repo, assets, workdir, outdir, releases, grouped_releases,
                   stable_releases, dev_snapshots, idx, downloaded_versions,
                   lastProbe, latest, string, parsed>>

\* download_docs, line 48
GetSemverTags ==
    /\ prog = "migrate_assets" /\ pc = "start"
    /\ releases' = get_semver_tags(repo)
    /\ idx' = 1
    /\ pc' = "tags"
    /\ UNCHANGED <<prog, err, repo, assets, workdir, outdir, grouped_releases,
                   stable_releases, dev_snapshots, downloaded_versions,
                   lastProbe, latest, string, parsed>>

\* download_docs, lines 56-67: one tag of the loop.
\* WORK_DIR outlives a run: left tells whether an earlier run left the zip there.
DownloadTag ==
    /\ prog = "migrate_assets" /\ pc = "tags"
    /\ idx <= Len(releases)
    /\ \E left \in BOOLEAN :
       LET version == releases[idx][1]
           tag == releases[idx][2]
           download_path == ZipFile(version)
       IN  IF left
           THEN /\ downloaded_versions' = Append(downloaded_versions, version)
                /\ workdir' = workdir \cup {download_path}
                /\ UNCHANGED lastProbe
           ELSE \E jobs \in JobLists :
                /\ lastProbe' = [id |-> tag.id, jobs |-> jobs,
                                 answer |-> download_commit_docs(jobs)]
                /\ IF download_commit_docs(jobs)
                   THEN /\ workdir' = workdir \cup {download_path}
                        /\ downloaded_versions' = Append(downloaded_versions, version)
                   ELSE UNCHANGED <<workdir, downloaded_versions>>
    /\ idx' = idx + 1
    /\ UNCHANGED <<prog, pc, err, repo, assets, outdir, releases, grouped_releases,
                   stable_releases, dev_snapshots, latest, string, parsed>>

\* main, lines 35-36: a tarball and a github release for every downloaded version
CreateReleases ==
    /\ prog = "migrate_assets" /\ pc = "tags"
    /\ idx > Len(releases)
    /\ outdir' = {downloaded_versions[i] : i \in 1..Len(downloaded_versions)}
    /\ pc' = "done"
    /\ UNCHANGED <<prog, err, repo, assets, workdir, releases, grouped_releases,
                   stable_releases, dev_snapshots, idx, downloaded_versions,
                   lastProbe, latest, string, parsed>>

\* grab-assets.py main: print(get_latest())
GetLatest ==
    /\ prog = "grab_assets" /\ pc = "start"
    /\ LET r == get_latest(repo)
       IN  IF r.err # "none"
           THEN /\ pc' = "failed"
                /\ err' = r.err
                /\ UNCHANGED latest
           ELSE /\ pc' = "done"
                /\ latest' = [release |-> r.release, snapshot |-> r.snapshot]
                /\ UNCHANGED err
    /\ UNCHANGED <<prog, repo, assets, workdir, outdir, releases, grouped_releases,
                   stable_releases, dev_snapshots, idx, downloaded_versions,
                   lastProbe, string, parsed>>

Next ==
    \/ BuildTable
    \/ Group
    \/ Select
    \/ DownloadAndExtract
    \/ WriteIndex
    \/ GetSemverTags
    \/ DownloadTag
    \/ CreateReleases
    \/ GetLatest

Spec == Init /\ [][Next]_vars

(***************************************************************************)
(* The parser on its own: every string over Alphabet up to MaxLen          *)
(***************************************************************************)
Alphabet == {"0", "1", "2", ".", "x", "\n"}

Strings == UNION {[1..n -> Alphabet] : n \in 0..MaxLen}

InitParse ==
    /\ prog = "from_string"
    /\ pc = "start"
    /\ err = "none"
    /\ repo = <<>>
    /\ assets = {}
    /\ workdir = {}
    /\ outdir = {}
    /\ releases = <<>>
    /\ grouped_releases = <<>>
    /\ stable_releases = <<>>
    /\ dev_snapshots = <<>>
    /\ idx = 0
    /\ downloaded_versions = <<>>
    /\ lastProbe = NoProbe
    /\ latest = NoLatest
    /\ string \in Strings
    /\ parsed = VersionError

\* Semver.from_string(string)
Parse ==
    /\ prog = "from_string" /\ pc = "start"
    /\ parsed' = from_string(string)
    /\ IF from_string(string) = VersionError
       THEN pc' = "failed" /\ err' = "VersionError"
       ELSE pc' = "done" /\ err' = err
    /\ UNCHANGED <<prog, repo, assets, workdir, outdir, releases, grouped_releases,
                   stable_releases, dev_snapshots, idx, downloaded_versions,
                   lastProbe, latest, string>>

NextParse == Parse

SpecParse == InitParse /\ [][NextParse]_vars

(***************************************************************************)
(* Vocabulary of the properties                                            *)
(***************************************************************************)
Line(v) == <<v.major, v.minor>>

\* numeric (major, minor, patch) order
VersionLess(a, b) ==
    \/ a.major < b.major
    \/ a.major = b.major /\ a.minor < b.minor
    \/ a.major = b.major /\ a.minor = b.minor /\ a.patch < b.patch

LineLess(a, b) == a[1] < b[1] \/ (a[1] = b[1] /\ a[2] < b[2])

Items(d) == {d[i] : i \in 1..Len(d)}

\* The catalog of a run: the dict select_releases has filled; get_latest keeps
\* none, there it is the table of the releases it is given.
Catalog == IF prog = "generate_pages" THEN releases ELSE ReleaseTable(repo)

LinesOf(d) == {Line(k) : k \in DictKeys(d)}

StableLines == {l \in LinesOf(Catalog) : l[2] % 2 = 0}

DevLines == {l \in LinesOf(Catalog) : l[2] % 2 = 1}

Candidates(l) == {it \in Items(Catalog) : Line(it[1]) = l}

HasArtifact(it) == it[2].id \in assets

NewestOf(S) == CHOOSE it \in S : \A other \in S : ~VersionLess(it[1], other[1])

EntriesFor(list, l) == {i \in 1..Len(list) : Line(list[i][1]) = l}

\* select_releases has returned its two lists
Returned ==
    /\ prog = "generate_pages"
    /\ pc \in {"selected", "done"} \/ err = "FileNotFoundError"

\* three decimal integers separated by literal dots
IsDottedTriple(s) ==
    \E i, j \in 1..Len(s) :
        /\ i < j
        /\ s[i] = "." /\ s[j] = "."
        /\ IsDigits(SubSeq(s, 1, i - 1))
        /\ IsDigits(SubSeq(s, i + 1, j - 1))
        /\ IsDigits(SubSeq(s, j + 1, Len(s)))

Reorderings(l) == {p \in Listings(Len(l)) : Len(p) = Len(l) /\ Ids(p) = Ids(l)}

NoArtifactLines == {l \in StableLines : \A it \in Candidates(l) : ~HasArtifact(it)}

DuplicateVersions ==
    \E i, j \in 1..Len(repo) :
        /\ i # j
        /\ from_string(repo[i].tag_name) # VersionError
        /\ from_string(repo[i].tag_name) = from_string(repo[j].tag_name)

\* C3: two tags that parse to the same version make catalog building fail with
\* DuplicateVersionError, before any selection or probing.
ClaimC3 ==
    (prog \in {"generate_pages", "migrate_assets"} /\ DuplicateVersions) =>
        \/ pc = "start"
        \/ pc = "failed" /\ err = "DuplicateVersionError"

(***************************************************************************)
(* C4                                                                      *)
(***************************************************************************)
\* C4: from_string yields a version only for three decimal integers separated
\* by literal dots, and fails on every other string.
ClaimC4 ==
    (prog = "from_string" /\ pc # "start") =>
        (parsed # VersionError <=> IsDottedTriple(string))

(***************************************************************************)
(* C5                                                                      *)
(***************************************************************************)
GreatestDevLine == CHOOSE l \in DevLines : \A m \in DevLines : ~LineLess(l, m)

ThmC6 ==
    prog = "generate_pages" =>
        /\ Returned =>
              /\ Len(stable_releases) = Cardinality(StableLines)
              /\ \A l \in StableLines : Cardinality(EntriesFor(stable_releases, l)) = 1
              /\ Len(dev_snapshots) = 1
              /\ Line(dev_snapshots[1][1]) \in DevLines
        /\ DevLines = {} =>
              /\ ~Returned
              /\ pc \in {"start", "table", "grouped", "failed"}
              /\ pc = "failed" => err = "IndexError"

\* Selection has returned two stable entries and the development entry.
WitC6 == Returned /\ Cardinality(StableLines) >= 2 /\ Len(stable_releases) >= 2

(***************************************************************************)
(* C7                                                                      *)
(***************************************************************************)
\* C7: any other order of the same listing gives the same grouped catalog and
\* the same selected entries.
ClaimC7 ==
    prog = "generate_pages" =>
        \A p \in Reorderings(repo) :
            LET grouped == group_releases_by_minor_versions(ReleaseTable(p))
            IN  /\ pc = "grouped" => grouped = grouped_releases
                /\ Returned =>
                      /\ StableReleases(grouped) = stable_releases
                      /\ SelectDevSnapshot(DevSnapshots(grouped)) = dev_snapshots

(***************************************************************************)
(* C8                                                                      *)
(***************************************************************************)
IsVersionName(release) == from_string(release.tag_name) # VersionError

\* C8: a tag whose name is no version string raises nothing in any script and
\* leaves the table of versions as it is without that tag.
ClaimC8 ==
    /\ err # "ValueError"
    /\ (prog = "generate_pages" /\ pc # "start") =>
           releases = ReleaseTable(SelectSeq(repo, IsVersionName))
    /\ (prog = "migrate_assets" /\ pc # "start") =>
           releases = get_semver_tags(SelectSeq(repo, IsVersionName))

(***************************************************************************)
(* C9                                                                      *)
(***************************************************************************)
ProbedVersion == from_string(TagNames[lastProbe.id])

ThmC10 ==
    (prog = "generate_pages" /\ pc \notin {"start", "table"}) =>
        /\ {grouped_releases[i][1] : i \in 1..Len(grouped_releases)} = LinesOf(releases)
        /\ \A i, j \in 1..Len(grouped_releases) :
               i < j => LineLess(grouped_releases[i][1], grouped_releases[j][1])
        /\ \A i \in 1..Len(grouped_releases) :
               LET key  == grouped_releases[i][1]
                   list == grouped_releases[i][2]
               IN  /\ Items(list) = {it \in Items(releases) : Line(it[1]) = key}
                   /\ \A a, b \in 1..Len(list) :
                          a < b => VersionLess(list[a][1], list[b][1])
                   /\ list[Len(list)] = NewestOf(Items(list))

\* A table that was not filled in ascending order has been grouped into several
\* lines, one of them with several releases.
WitC10 ==
    /\ prog = "generate_pages" /\ pc = "grouped"
    /\ Len(grouped_releases) >= 2
    /\ \E i \in 1..Len(grouped_releases) : Len(grouped_releases[i][2]) >= 2
    /\ \E i \in 1..(Len(releases) - 1) : VersionLess(releases[i + 1][1], releases[i][1])

====
